---- MODULE Spec2Model ----
(***************************************************************************)
(* Model of the preprocessing code of the RSNA intracranial aneurysm       *)
(* detection repository: the DICOM series loader (dicom_loader.py), the    *)
(* isotropic resampler (resampling.py), the per-series pipeline            *)
(* (pipeline.py) and the batch pre-caching loop (precache_all.py).         *)
(*                                                                         *)
(* Numbers: positions and spacings are floats in the code; the model uses  *)
(* integers (whole millimetres), on which the float arithmetic of the code *)
(* is exact.  An optional DICOM attribute is the empty tuple when the      *)
(* dataset lacks it and the one-element tuple <<v>> when it has value v.   *)
(***************************************************************************)
EXTENDS Integers, Sequences, FiniteSets

VARIABLES
    loadIn,     \* loader harness: the listing of the series directory
    loadOut,    \* loader harness: what load_dicom_series returned or raised
    rsIn,       \* resampler harness: the arguments of resample_isotropic
    rsOut,      \* resampler harness: what resample_isotropic returned or raised
    fs,         \* pipeline: series directory -> listing of its files
    cache,      \* pipeline: series id -> cached .npy volume (or Absent)
    frame,      \* pipeline: the running preprocess_series call
    batch,      \* pipeline: the running precache_all call
    out,        \* pipeline: outcome of the last top-level preprocess_series call
    ncalls      \* pipeline: number of top-level calls made so far

vars == <<loadIn, loadOut, rsIn, rsOut, fs, cache, frame, batch, out, ncalls>>

(***************************************************************************)
(* Bounds of the model.                                                    *)
(***************************************************************************)
MaxFiles == 2
MaxCalls == 2

(***************************************************************************)
(* Optional attributes, return values and exceptions.                      *)
(***************************************************************************)
Absent == <<>>
Present(v) == <<v>>
HasAttr(f) == f # <<>>
GetAttr(f, default) == IF f # <<>> THEN f[1] ELSE default

Return(v) == [raised |-> "", value |-> v]
Raise(e) == [raised |-> e, value |-> <<>>]
NotCalled == [raised |-> "not called", value |-> <<>>]
Ok(r) == r.raised = ""
Failed(r) == r.raised \notin {"", "not called"}

SeqToSet(s) == {s[i] : i \in 1..Len(s)}

(***************************************************************************)
(* dicom_loader.py                                                         *)
(***************************************************************************)

\* step 1: the .dcm files of the directory, in listing order
RECURSIVE DicomFiles(_)
DicomFiles(listing) ==
    IF listing = <<>> THEN <<>>
    ELSE IF Head(listing).ext = "dcm"
         THEN <<Head(listing)>> \o DicomFiles(Tail(listing))
         ELSE DicomFiles(Tail(listing))

\* the mutant of PositionKey: SliceLocation tried before ImagePositionPatient
PositionKeyLocationFirst(ds) ==
    IF HasAttr(ds.SliceLocation) THEN ds.SliceLocation[1]
    ELSE IF HasAttr(ds.ImagePositionPatient) THEN ds.ImagePositionPatient[1][3]
    ELSE IF HasAttr(ds.InstanceNumber) THEN ds.InstanceNumber[1]
    ELSE 0

\* step 2: the z of one dataset (ImagePositionPatient[2] is the third component)
PositionKey(ds) ==
    IF HasAttr(ds.ImagePositionPatient) THEN ds.ImagePositionPatient[1][3]
    ELSE IF HasAttr(ds.SliceLocation) THEN ds.SliceLocation[1]
    ELSE IF HasAttr(ds.InstanceNumber) THEN ds.InstanceNumber[1]
    ELSE 0

ReadHeaders(files) ==
    [i \in 1..Len(files) |->
        [dataset |-> files[i].ds, z |-> PositionKey(files[i].ds), path |-> files[i].name]]

RECURSIVE InsertByZ(_, _)

\* the mutant of InsertByZ: x goes in front of the elements of equal key
InsertByZBeforeEqual(s, x) ==
    IF s = <<>> THEN <<x>>
    ELSE IF Head(s).z < x.z THEN <<Head(s)>> \o InsertByZ(Tail(s), x)
    ELSE <<x>> \o s

\* insertion of x behind every element whose key is <= x.z
InsertByZ(s, x) ==
    IF s = <<>> THEN <<x>>
    ELSE IF Head(s).z <= x.z THEN <<Head(s)>> \o InsertByZ(Tail(s), x)
    ELSE <<x>> \o s

\* step 3: sorted(instances, key=z), a stable ascending sort
RECURSIVE SortedByZ(_)
SortedByZ(instances) ==
    IF instances = <<>> THEN <<>>
    ELSE InsertByZ(SortedByZ(SubSeq(instances, 1, Len(instances) - 1)),
                   instances[Len(instances)])

\* the mutant of Stack: slices that differ from the first one are left out
StackDroppingOddShapes(slices) ==
    LET keep == SelectSeq(slices, LAMBDA a : a.shape = slices[1].shape)
    IN  Return([shape |-> <<Len(keep)>> \o slices[1].shape,
                planes |-> [i \in 1..Len(keep) |-> keep[i].data],
                norm |-> "raw", resampled |-> FALSE])

\* the mutant of Stack: the last slice is left out of the stack
StackWithoutLast(slices) ==
    IF \E i \in 1..Len(slices) : slices[i].shape # slices[1].shape
    THEN Raise("ValueError: all input arrays must have the same shape")
    ELSE Return([shape |-> <<Len(slices) - 1>> \o slices[1].shape,
                 planes |-> [i \in 1..(Len(slices) - 1) |-> slices[i].data],
                 norm |-> "raw", resampled |-> FALSE])

\* step 4: np.stack(slices, axis=0), which refuses arrays of differing shape
Stack(slices) ==
    IF \E i \in 1..Len(slices) : slices[i].shape # slices[1].shape
    THEN Raise("ValueError: all input arrays must have the same shape")
    ELSE Return([shape |-> <<Len(slices)>> \o slices[1].shape,
                 planes |-> [i \in 1..Len(slices) |-> slices[i].data],
                 norm |-> "raw", resampled |-> FALSE])

\* the mutant of SliceSpacing: SpacingBetweenSlices tried before SliceThickness
SliceSpacingBetweenFirst(ds0) ==
    IF ds0.SpacingBetweenSlices # Absent THEN ds0.SpacingBetweenSlices[1]
    ELSE IF ds0.SliceThickness # Absent THEN ds0.SliceThickness[1]
    ELSE 1

\* step 5: the through-plane spacing read from the first sorted dataset
SliceSpacing(ds0) ==
    IF ds0.SliceThickness # Absent THEN ds0.SliceThickness[1]
    ELSE IF ds0.SpacingBetweenSlices # Absent THEN ds0.SpacingBetweenSlices[1]
    ELSE 1

\* the metadata dictionary, read from the first sorted dataset
Metadata(instances, sop_uids) ==
    LET ds0 == instances[1].dataset
    IN  [PixelSpacing |-> GetAttr(ds0.PixelSpacing, <<1, 1>>),
         SliceSpacing |-> SliceSpacing(ds0),
         SliceLocations |-> [i \in 1..Len(instances) |-> instances[i].z],
         SOPInstanceUIDs |-> sop_uids,
         Modality |-> GetAttr(ds0.Modality, "UNKNOWN"),
         SeriesInstanceUID |-> ds0.SeriesInstanceUID,
         PatientID |-> ds0.PatientID]

\* load_dicom_series(series_dir), on the listing of series_dir
LoadDicomSeries(listing) ==
    LET dicom_files == DicomFiles(listing)
        instances == SortedByZ(ReadHeaders(dicom_files))
        slices == [i \in 1..Len(instances) |-> instances[i].dataset.pixel_array]
        sop_uids == [i \in 1..Len(instances) |-> instances[i].dataset.SOPInstanceUID]
        stacked == Stack(slices)
    IN  IF Len(dicom_files) = 0 THEN Raise("FileNotFoundError: No DICOM files found")
        ELSE IF ~Ok(stacked) THEN stacked
        ELSE Return([volume |-> stacked.value, metadata |-> Metadata(instances, sop_uids)])

(***************************************************************************)
(* normalization.py                                                        *)
(***************************************************************************)

\* normalize_volume: the formula chosen by the modality tag, values into [0, 1]
NormalizeVolume(volume, modality) ==
    IF modality \in {"CT", "CTA"} THEN [volume EXCEPT !.norm = "cta"]
    ELSE IF modality \in {"MR", "MRI", "MRA", "T1", "T2"} THEN [volume EXCEPT !.norm = "mri"]
    ELSE [volume EXCEPT !.norm = "mri"]

(***************************************************************************)
(* resampling.py                                                           *)
(***************************************************************************)

\* the mutant of NormalizeRank: every 4D array is squeezed, whatever its leading axis
NormalizeRankAnyLeading(volume) ==
    LET ndim == Len(volume.shape)
    IN  IF ndim = 2 THEN Return([volume EXCEPT !.shape = <<1>> \o volume.shape])
        ELSE IF ndim = 4 THEN Return([volume EXCEPT !.shape = Tail(volume.shape)])
        ELSE IF ndim # 3 THEN Raise("ValueError: Unexpected volume shape")
        ELSE Return(volume)

\* the rank normalization at the head of resample_isotropic
NormalizeRank(volume) ==
    LET ndim == Len(volume.shape)
    IN  IF ndim = 2 THEN Return([volume EXCEPT !.shape = <<1>> \o volume.shape])
        ELSE IF ndim = 4 /\ volume.shape[1] = 1
             THEN Return([volume EXCEPT !.shape = Tail(volume.shape)])
        ELSE IF ndim # 3 THEN Raise("ValueError: Unexpected volume shape")
        ELSE Return(volume)

\* the mutant of PyRound: truncation towards minus infinity
PyFloor(n, d) ==
    IF d > 0 THEN n \div d ELSE (0 - n) \div (0 - d)

\* Python's round() of the quotient n / d (d # 0): to nearest, halves to even
PyRound(n, d) ==
    LET num == IF d > 0 THEN n ELSE 0 - n
        den == IF d > 0 THEN d ELSE 0 - d
        q == num \div den
        r == num - q * den
    IN  IF 2 * r < den THEN q
        ELSE IF 2 * r > den THEN q + 1
        ELSE IF q % 2 = 0 THEN q ELSE q + 1

\* scipy.ndimage.zoom: the output grid is round(extent * factor) along each axis;
\* a factor is the pair <<old spacing, new spacing>> whose quotient it is
Zoom(volume, zoom_factors) ==
    LET output_shape == [i \in 1..Len(volume.shape) |->
                            PyRound(volume.shape[i] * zoom_factors[i][1], zoom_factors[i][2])]
    IN  IF \E i \in 1..Len(output_shape) : output_shape[i] < 0
        THEN Raise("ValueError: negative dimensions are not allowed")
        ELSE Return([volume EXCEPT !.shape = output_shape, !.resampled = TRUE])

\* resample_isotropic(volume, spacing, new_spacing)
ResampleIsotropic(volume, spacing, new_spacing) ==
    LET ranked == NormalizeRank(volume)
    IN  IF ~Ok(ranked) THEN ranked
        ELSE IF Len(spacing) # 3 \/ Len(new_spacing) # 3
             THEN Raise("ValueError: wrong number of values to unpack")
        ELSE IF \E i \in 1..3 : new_spacing[i] = 0
             THEN Raise("ZeroDivisionError: float division by zero")
        ELSE Zoom(ranked.value, [i \in 1..3 |-> <<spacing[i], new_spacing[i]>>])

(***************************************************************************)
(* pipeline.py and precache_all.py: operators                              *)
(***************************************************************************)

\* os.path.basename(series_dir.rstrip("/")); a directory is <<parent, name>>
Basename(series_dir) == series_dir[2]

\* the mutant of NextPc: the volume is resampled before it is normalized
NextPcResampleFirst(pc) ==
    CASE pc = "enter" -> "load"
      [] pc = "load" -> "resample"
      [] pc = "resample" -> "normalize"
      [] pc = "normalize" -> "save"

\* the mutant of NextPc: the volume is saved and returned before it is resampled
NextPcSaveBeforeResample(pc) ==
    CASE pc = "enter" -> "load"
      [] pc = "load" -> "normalize"
      [] pc = "normalize" -> "save"
      [] pc = "resample" -> "save"

\* the order of the statements of preprocess_series
NextPc(pc) ==
    CASE pc = "enter" -> "load"
      [] pc = "load" -> "normalize"
      [] pc = "normalize" -> "resample"
      [] pc = "resample" -> "save"

\* the names below series_root in sorted order (the model's fixed name order)
NameOrder == <<"s1", "s2", "s3">>

\* list_series_dirs(series_root): the sorted sub-directories of series_root
ListSeriesDirs(files, series_root) ==
    LET all == [i \in 1..Len(NameOrder) |-> <<series_root, NameOrder[i]>>]
    IN  SelectSeq(all, LAMBDA d : d \in DOMAIN files)

\* the series_dirs of precache_all: the CSV's ids that are directories, in CSV
\* order, or every sub-directory of series_root when no CSV is given
SeriesDirs(files, series_root, csv) ==
    IF csv # Absent
    THEN SelectSeq([i \in 1..Len(csv[1]) |-> <<series_root, csv[1][i]>>],
                   LAMBDA d : d \in DOMAIN files)
    ELSE ListSeriesDirs(files, series_root)

\* the mutant of BatchExcept: the exception leaves the loop
BatchExceptPropagates(b, series_dir, e) ==
    [b EXCEPT !.pc = "raised"]

\* the except clause of the loop of precache_all: log the error and go on
BatchExcept(b, series_dir, e) ==
    [b EXCEPT !.log = Append(@, [msg |-> "Error processing", series_dir |-> series_dir, e |-> e])]

\* one iteration of the loop of precache_all has ended with result r
BatchAfterCall(b, series_dir, r) ==
    LET handled == IF Ok(r) THEN b ELSE BatchExcept(b, series_dir, r.raised)
    IN  IF handled.pc = "loop"
        THEN [handled EXCEPT !.i = @ + 1, !.outcomes = Append(@, r.raised)]
        ELSE handled

(***************************************************************************)
(* Inputs of the harnesses.                                                *)
(***************************************************************************)

\* a pydicom dataset: the attributes the code reads
Dataset(name, ipp, sl, inum, shape, thick, sbs, ps, modality) ==
    [SOPInstanceUID |-> name,
     ImagePositionPatient |-> ipp, SliceLocation |-> sl, InstanceNumber |-> inum,
     pixel_array |-> [shape |-> shape, data |-> name],
     SliceThickness |-> thick, SpacingBetweenSlices |-> sbs, PixelSpacing |-> ps,
     Modality |-> modality, SeriesInstanceUID |-> Absent, PatientID |-> Absent]

DcmFile(name, ds) == [name |-> name, ext |-> "dcm", ds |-> ds]
\* a directory entry that is not a .dcm file
OtherFile(name) ==
    [name |-> name, ext |-> "txt",
     ds |-> Dataset(name, Absent, Absent, Absent, <<>>, Absent, Absent, Absent, Absent)]

\* what one file of the loader harness may hold
LoaderChoices ==
    [ext : {"dcm"},
     ipp : {Absent, Present(<<7, 8, 1>>)},
     sl : {Absent, Present(2)},
     inum : {Absent, Present(1)},
     shape : {<<2, 2>>, <<2, 3>>},
     thick : {Absent, Present(2)},
     sbs : {Absent, Present(3)}]
    \cup
    [ext : {"txt"}, ipp : {Absent}, sl : {Absent}, inum : {Absent}, shape : {<<>>},
     thick : {Absent}, sbs : {Absent}]

LoaderFile(name, c) ==
    IF c.ext = "dcm"
    THEN DcmFile(name, Dataset(name, c.ipp, c.sl, c.inum, c.shape, c.thick, c.sbs, Absent, Absent))
    ELSE OtherFile(name)

\* five slices at positions 30, 10, 20, 0, 40 given by ImagePositionPatient
FivePositions == <<30, 10, 20, 0, 40>>
FiveSlices ==
    [i \in 1..5 |->
        DcmFile(i, Dataset(i, Present(<<7, 8, FivePositions[i]>>), Absent, Present(i),
                           <<2, 2>>, Absent, Absent, Absent, Absent))]

RawVolume(shape) == [shape |-> shape, planes |-> <<>>, norm |-> "raw", resampled |-> FALSE]

ResamplerShapes ==
    {<<4>>, <<3, 2>>, <<3, 2, 2>>, <<5, 3, 1>>, <<10, 50, 50>>,
     <<1, 3, 2, 2>>, <<2, 3, 2, 2>>, <<1, 1, 3, 2, 2>>}
SpacingValues == {-1, 0, 1, 2, 3}
SpacingTuples == [1..3 -> SpacingValues] \cup {<<1, 1>>}

(***************************************************************************)
(* The loader harness: one call of load_dicom_series on any listing.       *)
(***************************************************************************)
NoFrame ==
    [pc |-> "idle", caller |-> "", series_dir |-> <<>>, new_spacing |-> <<>>,
     use_cache |-> FALSE, volume |-> <<>>, metadata |-> <<>>, steps |-> <<>>]
NoBatch ==
    [pc |-> "idle", series_dirs |-> <<>>, i |-> 0, log |-> <<>>, attempted |-> <<>>,
     outcomes |-> <<>>]

PipelineIdle ==
    /\ fs = <<>>
    /\ cache = <<>>
    /\ frame = NoFrame
    /\ batch = NoBatch
    /\ out = NotCalled
    /\ ncalls = 0

InitLoad ==
    /\ \/ \E n \in 0..MaxFiles : \E c \in [1..n -> LoaderChoices] :
              loadIn = [i \in 1..n |-> LoaderFile(i, c[i])]
       \/ loadIn = FiveSlices
    /\ loadOut = NotCalled
    /\ rsIn = <<>>
    /\ rsOut = NotCalled
    /\ PipelineIdle

CallLoadDicomSeries ==
    /\ loadOut = NotCalled
    /\ loadOut' = LoadDicomSeries(loadIn)
    /\ UNCHANGED <<loadIn, rsIn, rsOut, fs, cache, frame, batch, out, ncalls>>

NextLoad == CallLoadDicomSeries

SpecLoad == InitLoad /\ [][NextLoad]_vars

(***************************************************************************)
(* The resampler harness: one call of resample_isotropic on any arguments. *)
(***************************************************************************)
InitResample ==
    /\ \E shape \in ResamplerShapes : \E sp \in SpacingTuples : \E nsp \in SpacingTuples :
           rsIn = [volume |-> RawVolume(shape), spacing |-> sp, new_spacing |-> nsp]
    /\ rsOut = NotCalled
    /\ loadIn = <<>>
    /\ loadOut = NotCalled
    /\ PipelineIdle

CallResampleIsotropic ==
    /\ rsOut = NotCalled
    /\ rsOut' = ResampleIsotropic(rsIn.volume, rsIn.spacing, rsIn.new_spacing)
    /\ UNCHANGED <<loadIn, loadOut, rsIn, fs, cache, frame, batch, out, ncalls>>

NextResample == CallResampleIsotropic

SpecResample == InitResample /\ [][NextResample]_vars

(***************************************************************************)
(* Properties of load_dicom_series, checked under SpecLoad.                *)
(***************************************************************************)
Loaded == Ok(loadOut)
dcmIn == DicomFiles(loadIn)
\* the input file that carries SOP instance uid u
FileOfUid(u) == CHOOSE f \in SeqToSet(dcmIn) : f.ds.SOPInstanceUID = u
\* the place of the file named n in the listing
ListingIndex(n) == CHOOSE i \in 1..Len(loadIn) : loadIn[i].name = n
Reorderings(n) == {p \in [1..n -> 1..n] : \A i, j \in 1..n : p[i] = p[j] => i = j}
SameShapes == \A i, j \in 1..Len(dcmIn) : dcmIn[i].ds.pixel_array.shape = dcmIn[j].ds.pixel_array.shape
ValidSeries == Len(dcmIn) >= 1 /\ SameShapes

C2_PositionKeyPriority ==
    /\ Loaded =>
        LET m == loadOut.value.metadata
        IN  \A i \in 1..Len(m.SOPInstanceUIDs) :
                LET ds == FileOfUid(m.SOPInstanceUIDs[i]).ds
                    z == m.SliceLocations[i]
                IN  /\ ds.ImagePositionPatient # Absent => z = ds.ImagePositionPatient[1][3]
                    /\ (ds.ImagePositionPatient = Absent /\ ds.SliceLocation # Absent)
                           => z = ds.SliceLocation[1]
                    /\ (ds.ImagePositionPatient = Absent /\ ds.SliceLocation = Absent
                            /\ ds.InstanceNumber # Absent) => z = ds.InstanceNumber[1]
                    /\ (ds.ImagePositionPatient = Absent /\ ds.SliceLocation = Absent
                            /\ ds.InstanceNumber = Absent) => z = 0
    /\ (loadOut # NotCalled /\ ValidSeries) => Loaded

C2_Witness ==
    /\ Loaded
    /\ \E i, j \in 1..Len(dcmIn) :
           /\ dcmIn[i].ds.ImagePositionPatient # Absent
           /\ dcmIn[i].ds.SliceLocation # Absent
           /\ dcmIn[i].ds.InstanceNumber # Absent
           /\ dcmIn[j].ds.ImagePositionPatient = Absent
           /\ dcmIn[j].ds.SliceLocation = Absent
           /\ dcmIn[j].ds.InstanceNumber = Absent

\* C3: a valid series of N slices of shape H x W loads as a volume of shape
\* (N, H, W) that holds every slice exactly once, and SliceLocations and
\* SOPInstanceUIDs have N entries, entry i being that of the slice at index i.
C3_ShapeAndMetadataAligned ==
    (loadOut # NotCalled /\ ValidSeries) =>
        /\ Loaded
        /\ LET v == loadOut.value.volume
               m == loadOut.value.metadata
               N == Len(dcmIn)
           IN  /\ v.shape = <<N>> \o dcmIn[1].ds.pixel_array.shape
               /\ Len(v.planes) = N
               /\ SeqToSet(v.planes) = {dcmIn[i].ds.pixel_array.data : i \in 1..N}
               /\ Len(m.SliceLocations) = N
               /\ Len(m.SOPInstanceUIDs) = N
               /\ \A i \in 1..N :
                      LET f == FileOfUid(m.SOPInstanceUIDs[i])
                      IN  /\ v.planes[i] = f.ds.pixel_array.data
                          /\ m.SliceLocations[i] = PositionKey(f.ds)

C3_Witness ==
    /\ Loaded
    /\ Len(dcmIn) = 2
    /\ loadOut.value.volume.shape = <<2, 2, 3>>
    /\ loadOut.value.metadata.SOPInstanceUIDs # [i \in 1..2 |-> dcmIn[i].ds.SOPInstanceUID]

\* C7: when the slices of a series do not all have the same height x width the
\* load fails with the stacking error and returns no volume.
C7_InconsistentShapeFails ==
    (loadOut # NotCalled /\ Len(dcmIn) >= 1 /\ ~SameShapes) =>
        /\ loadOut.raised = "ValueError: all input arrays must have the same shape"
        /\ loadOut.value = <<>>

C7_Witness ==
    /\ loadOut.raised = "ValueError: all input arrays must have the same shape"
    /\ Len(dcmIn) = 2

\* C10: the through-plane spacing is that of the first slice in sorted order:
\* its SliceThickness if it has one, else its SpacingBetweenSlices if it has
\* one, else 1.0.
C10_SliceSpacingPriority ==
    Loaded =>
        LET m == loadOut.value.metadata
            ds0 == FileOfUid(m.SOPInstanceUIDs[1]).ds
        IN  /\ ds0.SliceThickness # Absent => m.SliceSpacing = ds0.SliceThickness[1]
            /\ (ds0.SliceThickness = Absent /\ ds0.SpacingBetweenSlices # Absent)
                   => m.SliceSpacing = ds0.SpacingBetweenSlices[1]
            /\ (ds0.SliceThickness = Absent /\ ds0.SpacingBetweenSlices = Absent)
                   => m.SliceSpacing = 1

C10_Witness ==
    /\ Loaded
    /\ Len(dcmIn) = 2
    /\ LET first == FileOfUid(loadOut.value.metadata.SOPInstanceUIDs[1]).ds
           second == FileOfUid(loadOut.value.metadata.SOPInstanceUIDs[2]).ds
       IN  /\ first.SOPInstanceUID # dcmIn[1].ds.SOPInstanceUID
           /\ first.SliceThickness # Absent
           /\ first.SpacingBetweenSlices # Absent
           /\ second.SliceThickness = Absent
           /\ second.SpacingBetweenSlices = Absent

(***************************************************************************)
(* Properties of resample_isotropic, checked under SpecResample.           *)
(***************************************************************************)
Resampled == rsOut # NotCalled
inShape == rsIn.volume.shape
\* the 3D shape the rank normalization is to give, <<>> when the rank is refused
Expected3D ==
    IF Len(inShape) = 3 THEN inShape
    ELSE IF Len(inShape) = 2 THEN <<1, inShape[1], inShape[2]>>
    ELSE IF Len(inShape) = 4 /\ inShape[1] = 1 THEN <<inShape[2], inShape[3], inShape[4]>>
    ELSE <<>>
ThreeSpacings == Len(rsIn.spacing) = 3 /\ Len(rsIn.new_spacing) = 3
Abs(x) == IF x < 0 THEN 0 - x ELSE x

\* C4: with a 3D volume, the call fails and returns no volume whenever a
\* component of the original or of the target spacing is zero or negative.
C4_InvalidSpacingRejected ==
    (/\ Resampled
     /\ Len(inShape) = 3
     /\ ThreeSpacings
     /\ \E i \in 1..3 : rsIn.spacing[i] <= 0 \/ rsIn.new_spacing[i] <= 0)
        => (Failed(rsOut) /\ rsOut.value = <<>>)

\* C5: a 2D input is resampled as (1, H, W), a 4D input with leading axis 1 as
\* its last three axes, a 3D input as it is; any other input fails with the
\* rank error, whatever the spacings are (no interpolation is attempted).
C5_RankNormalization ==
    Resampled =>
        IF Expected3D = <<>>
        THEN rsOut = Raise("ValueError: Unexpected volume shape")
        ELSE /\ rsOut.raised # "ValueError: Unexpected volume shape"
             /\ rsOut = ResampleIsotropic(RawVolume(Expected3D), rsIn.spacing, rsIn.new_spacing)
             /\ Ok(rsOut) => Len(rsOut.value.shape) = 3

C5_Witness ==
    /\ Ok(rsOut)
    /\ inShape = <<1, 3, 2, 2>>
    /\ rsOut.value.shape = <<6, 2, 2>>

\* C6: for a 3D volume and positive spacings the call succeeds and each output
\* extent is the integer nearest to extent * spacing / new_spacing; shape
\* (10, 50, 50) at spacing (2, 1, 1) resampled to (1, 1, 1) is (20, 50, 50), and
\* equal spacings leave the shape unchanged.
C6_OutputExtent ==
    (/\ Resampled
     /\ Len(inShape) = 3
     /\ ThreeSpacings
     /\ \A i \in 1..3 : rsIn.spacing[i] > 0 /\ rsIn.new_spacing[i] > 0)
        => /\ Ok(rsOut)
           /\ Len(rsOut.value.shape) = 3
           /\ \A i \in 1..3 :
                  2 * Abs(rsOut.value.shape[i] * rsIn.new_spacing[i] - inShape[i] * rsIn.spacing[i])
                      <= rsIn.new_spacing[i]
           /\ (inShape = <<10, 50, 50>> /\ rsIn.spacing = <<2, 1, 1>> /\ rsIn.new_spacing = <<1, 1, 1>>)
                  => rsOut.value.shape = <<20, 50, 50>>
           /\ rsIn.spacing = rsIn.new_spacing => rsOut.value.shape = inShape

C6_Witness ==
    /\ Ok(rsOut)
    /\ inShape = <<10, 50, 50>>
    /\ rsIn.spacing = <<2, 1, 1>>
    /\ rsIn.new_spacing = <<1, 1, 1>>
    /\ rsOut.value.shape = <<20, 50, 50>>

(***************************************************************************)
(* The pipeline: preprocess_series called directly or by precache_all,     *)
(* over a file system of series directories and a cache directory.         *)
(***************************************************************************)
SeriesRoot == "series"
MissingDir == <<SeriesRoot, "gone">>
\* a path that does not exist and whose last component is s1
MissingS1 == <<"gone", "s1">>
SeriesIds == {"s1", "s2", "s3"}

\* two CT slices listed in descending position
GoodCT ==
    <<DcmFile(1, Dataset(1, Present(<<7, 8, 5>>), Absent, Absent, <<2, 2>>,
                         Present(2), Absent, Present(<<1, 1>>), Present("CT"))),
      DcmFile(2, Dataset(2, Present(<<7, 8, 3>>), Absent, Absent, <<2, 2>>,
                         Present(2), Absent, Present(<<1, 1>>), Present("CT")))>>
\* two slices of differing shape
MixedShapes ==
    <<DcmFile(1, Dataset(1, Absent, Present(1), Absent, <<2, 2>>,
                         Absent, Absent, Absent, Present("MR"))),
      DcmFile(2, Dataset(2, Absent, Present(2), Absent, <<2, 3>>,
                         Absent, Absent, Absent, Present("MR")))>>
\* one MR slice whose SliceThickness is negative
NegativeThickness ==
    <<DcmFile(1, Dataset(1, Absent, Absent, Present(1), <<2, 2>>,
                         Present(-1), Absent, Absent, Present("MR")))>>
\* a directory without any .dcm file
NoDicom == <<OtherFile(1)>>
\* a series outside series_root whose directory is also named s1
OtherS1 ==
    <<DcmFile(1, Dataset(1, Absent, Absent, Absent, <<3, 3>>,
                         Absent, Present(1), Absent, Absent))>>

SeriesMenu == {GoodCT, MixedShapes, NegativeThickness, NoDicom}
TargetSpacings == {<<1, 1, 1>>, <<2, 2, 2>>}
CsvChoices == {Absent, Present(<<"s3", "gone", "s1">>)}

Init ==
    /\ \E content \in [SeriesIds -> SeriesMenu] :
           fs = [d \in ({SeriesRoot} \X SeriesIds) \cup {<<"other", "s1">>} |->
                    IF d[1] = SeriesRoot THEN content[d[2]] ELSE OtherS1]
    /\ cache = [id \in SeriesIds |-> Absent]
    /\ frame = NoFrame
    /\ batch = NoBatch
    /\ out = NotCalled
    /\ ncalls = 0
    /\ loadIn = <<>>
    /\ loadOut = NotCalled
    /\ rsIn = <<>>
    /\ rsOut = NotCalled

Quiet == frame.pc = "idle" /\ batch.pc \in {"idle", "done"}

\* preprocess_series(series_dir, new_spacing, use_cache=...) called from outside
CallPreprocessSeries ==
    /\ Quiet
    /\ ncalls < MaxCalls
    /\ \E d \in DOMAIN fs \cup {MissingDir, MissingS1} : \E nsp \in TargetSpacings : \E uc \in BOOLEAN :
           frame' = [NoFrame EXCEPT !.pc = "enter", !.caller = "direct", !.series_dir = d,
                                    !.new_spacing = nsp, !.use_cache = uc]
    /\ ncalls' = ncalls + 1
    /\ out' = NotCalled
    /\ UNCHANGED <<fs, cache, batch, loadIn, loadOut, rsIn, rsOut>>

\* precache_all(series_root, csv_path) up to the head of its loop
CallPrecacheAll ==
    /\ Quiet
    /\ ncalls < MaxCalls
    /\ \E csv \in CsvChoices :
           LET series_dirs == SeriesDirs(fs, SeriesRoot, csv)
           IN  batch' = [NoBatch EXCEPT
                   !.pc = "loop", !.series_dirs = series_dirs, !.i = 1,
                   !.log = <<[msg |-> "Found", series_dir |-> <<>>, e |-> ""],
                             [msg |-> "Starting preprocessing", series_dir |-> <<>>, e |-> ""]>>]
    /\ ncalls' = ncalls + 1
    /\ UNCHANGED <<fs, cache, frame, out, loadIn, loadOut, rsIn, rsOut>>

\* the loop body: preprocess_series(series_dir, cache_dir, use_cache=True)
BatchIterate ==
    /\ batch.pc = "loop"
    /\ frame.pc = "idle"
    /\ batch.i <= Len(batch.series_dirs)
    /\ frame' = [NoFrame EXCEPT !.pc = "enter", !.caller = "batch",
                                !.series_dir = batch.series_dirs[batch.i],
                                !.new_spacing = <<1, 1, 1>>, !.use_cache = TRUE]
    /\ batch' = [batch EXCEPT !.attempted = Append(@, batch.series_dirs[batch.i])]
    /\ UNCHANGED <<fs, cache, out, ncalls, loadIn, loadOut, rsIn, rsOut>>

\* the end of the loop and the closing log line
BatchFinish ==
    /\ batch.pc = "loop"
    /\ frame.pc = "idle"
    /\ batch.i > Len(batch.series_dirs)
    /\ batch' = [batch EXCEPT !.pc = "done",
                              !.log = Append(@, [msg |-> "Cached volumes saved",
                                                 series_dir |-> <<>>, e |-> ""])]
    /\ UNCHANGED <<fs, cache, frame, out, ncalls, loadIn, loadOut, rsIn, rsOut>>

\* preprocess_series returns or raises r to its caller
Finish(r) ==
    /\ frame' = NoFrame
    /\ IF frame.caller = "direct"
       THEN out' = r /\ batch' = batch
       ELSE out' = out /\ batch' = BatchAfterCall(batch, frame.series_dir, r)

\* the mutant of PS_Enter: the cache is not looked up
PS_EnterIgnoringCache ==
    /\ frame.pc = "enter"
    /\ IF frame.series_dir \notin DOMAIN fs
       THEN Finish(Raise("FileNotFoundError: Series directory not found"))
       ELSE /\ frame' = [frame EXCEPT !.pc = NextPc("enter")]
            /\ UNCHANGED <<out, batch>>
    /\ UNCHANGED <<fs, cache, ncalls, loadIn, loadOut, rsIn, rsOut>>

\* the existence check and the cache lookup
PS_Enter ==
    /\ frame.pc = "enter"
    /\ IF frame.series_dir \notin DOMAIN fs
       THEN Finish(Raise("FileNotFoundError: Series directory not found"))
       ELSE IF frame.use_cache /\ cache[Basename(frame.series_dir)] # Absent
       THEN Finish(Return([volume |-> cache[Basename(frame.series_dir)][1],
                           metadata |-> [SeriesInstanceUID |-> Basename(frame.series_dir)]]))
       ELSE /\ frame' = [frame EXCEPT !.pc = NextPc("enter")]
            /\ UNCHANGED <<out, batch>>
    /\ UNCHANGED <<fs, cache, ncalls, loadIn, loadOut, rsIn, rsOut>>

\* volume, metadata = load_dicom_series(series_dir)
PS_Load ==
    /\ frame.pc = "load"
    /\ LET r == LoadDicomSeries(fs[frame.series_dir])
       IN  IF ~Ok(r) THEN Finish(r)
           ELSE /\ frame' = [frame EXCEPT !.pc = NextPc("load"),
                                          !.volume = r.value.volume,
                                          !.metadata = r.value.metadata,
                                          !.steps = Append(@, "load")]
                /\ UNCHANGED <<out, batch>>
    /\ UNCHANGED <<fs, cache, ncalls, loadIn, loadOut, rsIn, rsOut>>

\* volume = normalize_volume(volume, modality=metadata["Modality"])
PS_Normalize ==
    /\ frame.pc = "normalize"
    /\ frame' = [frame EXCEPT !.pc = NextPc("normalize"),
                              !.volume = NormalizeVolume(@, frame.metadata.Modality),
                              !.steps = Append(@, "normalize")]
    /\ UNCHANGED <<fs, cache, out, batch, ncalls, loadIn, loadOut, rsIn, rsOut>>

\* volume = resample_isotropic(volume, spacing=orig_spacing, new_spacing=new_spacing)
PS_Resample ==
    /\ frame.pc = "resample"
    /\ LET orig_spacing == <<frame.metadata.SliceSpacing,
                             frame.metadata.PixelSpacing[1],
                             frame.metadata.PixelSpacing[2]>>
           r == ResampleIsotropic(frame.volume, orig_spacing, frame.new_spacing)
       IN  IF ~Ok(r) THEN Finish(r)
           ELSE /\ frame' = [frame EXCEPT !.pc = NextPc("resample"),
                                          !.volume = r.value,
                                          !.steps = Append(@, "resample")]
                /\ UNCHANGED <<out, batch>>
    /\ UNCHANGED <<fs, cache, ncalls, loadIn, loadOut, rsIn, rsOut>>

\* np.save(cache_path, volume) when use_cache, and the return
PS_Save ==
    /\ frame.pc = "save"
    /\ cache' = IF frame.use_cache
                THEN [cache EXCEPT ![Basename(frame.series_dir)] = Present(frame.volume)]
                ELSE cache
    /\ Finish(Return([volume |-> frame.volume, metadata |-> frame.metadata]))
    /\ UNCHANGED <<fs, ncalls, loadIn, loadOut, rsIn, rsOut>>

Next ==
    \/ CallPreprocessSeries
    \/ CallPrecacheAll
    \/ BatchIterate
    \/ BatchFinish
    \/ PS_Enter
    \/ PS_Load
    \/ PS_Normalize
    \/ PS_Resample
    \/ PS_Save

Spec == Init /\ [][Next]_vars

\* the steps of a running precache_all and of the call it has made
BatchProgress ==
    BatchIterate \/ BatchFinish \/ PS_Enter \/ PS_Load \/ PS_Normalize \/ PS_Resample \/ PS_Save

\* a sequential program keeps running: a started call is run to its end
FairSpec == Spec /\ WF_vars(BatchProgress)

(***************************************************************************)
(* Properties of preprocess_series and precache_all, checked under Spec.   *)
(***************************************************************************)
IsPrefix(a, b) == Len(a) <= Len(b) /\ a = SubSeq(b, 1, Len(a))

\* C8: a run that does not return the cached volume assembles, then
\* normalizes, then resamples: normalize_volume gets the raw assembled volume
\* and resample_isotropic gets a normalized volume that was not yet resampled.
C8_NormalizeThenResample ==
    /\ IsPrefix(frame.steps, <<"load", "normalize", "resample">>)
    /\ frame.pc = "normalize" =>
           /\ frame.steps = <<"load">>
           /\ frame.volume.norm = "raw" /\ ~frame.volume.resampled
    /\ frame.pc = "resample" =>
           /\ frame.steps = <<"load", "normalize">>
           /\ frame.volume.norm # "raw" /\ ~frame.volume.resampled
    /\ frame.pc = "save" =>
           /\ frame.steps = <<"load", "normalize", "resample">>
           /\ frame.volume.norm # "raw" /\ frame.volume.resampled

C8_Witness ==
    /\ frame.pc = "save"
    /\ frame.steps = <<"load", "normalize", "resample">>
    /\ frame.volume.norm = "cta"
    /\ frame.volume.shape = <<4, 2, 2>>

ErrorLines(log) == SelectSeq(log, LAMBDA l : l.msg = "Error processing")
\* the error lines that the outcomes of the first n iterations call for
RECURSIVE ExpectedErrorLines(_, _, _)
ExpectedErrorLines(dirs, outcomes, n) ==
    IF n = 0 THEN <<>>
    ELSE LET before == ExpectedErrorLines(dirs, outcomes, n - 1)
         IN  IF outcomes[n] = "" THEN before
             ELSE Append(before, [msg |-> "Error processing", series_dir |-> dirs[n],
                                  e |-> outcomes[n]])

C9_Safety ==
    /\ batch.pc \in {"idle", "loop", "done"}
    /\ IsPrefix(batch.attempted, batch.series_dirs)
    /\ batch.pc # "idle" =>
           /\ Len(batch.outcomes) = batch.i - 1
           /\ Len(batch.attempted) \in {batch.i - 1, batch.i}
           /\ Len(batch.attempted) = batch.i <=> (frame.pc # "idle" /\ frame.caller = "batch")
    /\ batch.pc = "done" => batch.attempted = batch.series_dirs
    /\ ErrorLines(batch.log)
           = ExpectedErrorLines(batch.series_dirs, batch.outcomes, Len(batch.outcomes))

FrameLeft ==
    CASE frame.pc = "idle" -> 6
      [] frame.pc = "enter" -> 5
      [] frame.pc = "load" -> 4
      [] frame.pc \in {"normalize", "resample"} /\ Len(frame.steps) = 1 -> 3
      [] frame.pc \in {"normalize", "resample"} /\ Len(frame.steps) = 2 -> 2
      [] frame.pc = "save" -> 1
\* the steps a running precache_all has left at most
WorkLeft ==
    IF batch.pc # "loop" THEN 0
    ELSE 7 * (Len(batch.series_dirs) + 1 - batch.i) + FrameLeft

\* the running precache_all stands at the head of its loop or at a statement
\* of the call it has made, each of which has a step to take
BatchCanStep ==
    \/ frame.pc = "idle"
    \/ frame.pc \in {"enter", "load", "normalize", "resample", "save"} /\ frame.caller = "batch"

\* C9: in a run of precache_all the series directories are attempted once each
\* in list order, a call that raises is logged with its directory and the loop
\* goes on with the next directory, and the run reaches its end: while it
\* runs it always has a step to take, and every step leaves it less to do.
C9_BatchIsolation ==
    /\ [](C9_Safety /\ (batch.pc = "loop" => (WorkLeft > 0 /\ BatchCanStep)))
    /\ [][batch.pc = "loop" => WorkLeft' < WorkLeft]_vars

\* the same end stated as liveness, for FairSpec
C9_ReachesEnd == (batch.pc = "loop") ~> (batch.pc = "done")

C9_Witness ==
    /\ batch.pc = "done"
    /\ Len(batch.series_dirs) = 3
    /\ batch.outcomes[1] # ""
    /\ batch.outcomes[2] # ""
    /\ batch.outcomes[3] = ""
    /\ Len(ErrorLines(batch.log)) = 2

\* the running preprocess_series call ends in this step
CallEnds == frame.pc # "idle" /\ frame'.pc = "idle"
\* the exception the ending call raises ("" when it returns)
EndRaised ==
    IF frame.caller = "direct" THEN out'.raised
    ELSE batch'.outcomes[Len(batch'.outcomes)]

CacheEntriesComplete ==
    \A id \in SeriesIds :
        cache[id] # Absent => (cache[id][1].norm # "raw" /\ cache[id][1].resampled)

\* C11: a call of preprocess_series whose assembly, normalization or
\* resampling fails raises, returns no volume and leaves the cache as it was;
\* the cache is written only by the last step of a call that has assembled,
\* normalized and resampled its volume, so every entry is such a volume.
C11_AllOrNothing ==
    /\ []CacheEntriesComplete
    /\ [][/\ (CallEnds /\ frame.pc \in {"load", "normalize", "resample"}) => EndRaised # ""
          /\ (CallEnds /\ EndRaised # "") =>
                 /\ cache' = cache
                 /\ frame.caller = "direct" => out'.value = <<>>
          /\ cache' # cache =>
                 /\ frame.pc = "save" /\ frame.use_cache
                 /\ frame.steps = <<"load", "normalize", "resample">>
                 /\ frame.volume.norm # "raw" /\ frame.volume.resampled
                 /\ CallEnds /\ EndRaised = ""
                 /\ cache' = [cache EXCEPT ![Basename(frame.series_dir)] = Present(frame.volume)]
         ]_vars

C11_Witness ==
    /\ out.raised = "ValueError: negative dimensions are not allowed"
    /\ out.value = <<>>
    /\ cache["s1"] # Absent
    /\ cache["s2"] = Absent
    /\ fs[<<SeriesRoot, "s2">>] = NegativeThickness

\* a call with use_cache=True starts while the cache holds its series id
CachedCallStarts ==
    /\ frame.pc = "enter"
    /\ frame.use_cache
    /\ Basename(frame.series_dir) \in SeriesIds
    /\ cache[Basename(frame.series_dir)] # Absent
\* it returns the stored volume at once, with the series id as only metadata
ReturnsStoredVolume ==
    /\ CallEnds
    /\ frame.steps = <<>>
    /\ cache' = cache
    /\ EndRaised = ""
    /\ frame.caller = "direct" =>
           out' = Return([volume |-> cache[Basename(frame.series_dir)][1],
                          metadata |-> [SeriesInstanceUID |-> Basename(frame.series_dir)]])
EntriesNeverRewritten ==
    \A id \in SeriesIds : cache[id] # Absent => cache'[id] = cache[id]

====
